---- MODULE Spec2Model ----
(***************************************************************************)
(* Atomo10 API (src/main.py, src/schemas.py): the request handlers that    *)
(* edit the stop list and the schedules embedded in a Line document, and   *)
(* the ETA projection computed from them.                                  *)
(*                                                                         *)
(* Encoding.  A Python Optional is a sequence: None is <<>> and a value v  *)
(* is <<v>>.  A Python str that the code parses ("HH:MM") is a sequence of *)
(* one-character strings.  A line_id string is the pair (does bson accept  *)
(* it as an ObjectId, which ObjectId it denotes).  An HTTP response is     *)
(* [status, detail]; an exception no handler catches is status 500.        *)
(***************************************************************************)
EXTENDS Integers, Sequences, FiniteSets, TLC

VARIABLES db, last, proc

vars == <<db, last, proc>>

\* ------------------------------------------------------------------ bounds
MaxLines == 2
MaxStops == 3
MaxScheds == 2
MaxRequests == 3

\* ------------------------------------------------------------------ values
None == <<>>

Some(v) == <<v>>

Range(s) == {s[i] : i \in DOMAIN s}

SeqsUpTo(S, n) == UNION {[1..k -> S] : k \in 0..n}

\* A stop as schemas.Stop dumps it (create_line).
Stop(id, name, lat, lng, tm) ==
    [id |-> id, name |-> name, lat |-> lat, lng |-> lng,
     travel_minutes_from_prev |-> tm]

\* A stop as StopInput.model_dump() gives it (add_stop): no "id" key.
StopInput(name, lat, lng, tm) ==
    [name |-> name, lat |-> lat, lng |-> lng, travel_minutes_from_prev |-> tm]

StopPatch(index, name, lat, lng, tm) ==
    [index |-> index, name |-> name, lat |-> lat, lng |-> lng,
     travel_minutes_from_prev |-> tm]

Line(name, stops, schedules) ==
    [name |-> name, stops |-> stops, schedules |-> schedules]

\* ------------------------------------------------------------------ responses
Ok == [status |-> 200, detail |-> "ok"]

LineNotFound == [status |-> 404, detail |-> "Line not found"]

InvalidLineId == [status |-> 400, detail |-> "Invalid line id"]

InvalidStopIndex == [status |-> 400, detail |-> "Invalid stop index"]

\* pydantic rejects the request body before the handler runs.
ValidationError == [status |-> 422, detail |-> "validation error"]

\* An exception that no handler catches: bson.errors.InvalidId, ValueError.
Unhandled(exc) == [status |-> 500, detail |-> exc]

\* ------------------------------------------------------------------ the store
\* bson.ObjectId(line_id): raises InvalidId unless the string is an ObjectId.
ObjectIdRaises(line_id) == ~line_id.wellformed

\* db[...].find_one({"_id": ObjectId(line_id)}): the document, or None.
find_one(store, line_id) ==
    IF line_id.oid \in DOMAIN store THEN Some(store[line_id.oid]) ELSE None

\* update_one(...).matched_count
matched_count(store, line_id) ==
    IF line_id.oid \in DOMAIN store THEN 1 ELSE 0

\* update_one({"_id": ...}, {"$set": {"stops": stops}})
set_stops(store, oid, stops) ==
    IF oid \in DOMAIN store
    THEN [store EXCEPT ![oid].stops = stops]
    ELSE store

\* update_one({"_id": ...}, {"$set": {"schedules": schedules}})
set_schedules_update(store, oid, schedules) ==
    IF oid \in DOMAIN store
    THEN [store EXCEPT ![oid].schedules = schedules]
    ELSE store

\* Mutant of push_stop: the stop goes to the front of the list.
push_stop_front(store, oid, stop) ==
    IF oid \in DOMAIN store
    THEN [store EXCEPT ![oid].stops = <<stop>> \o @]
    ELSE store

\* update_one({"_id": ...}, {"$push": {"stops": stop}})
push_stop(store, oid, stop) ==
    IF oid \in DOMAIN store
    THEN [store EXCEPT ![oid].stops = Append(@, stop)]
    ELSE store

\* database.create_document: insert the document under a fresh id.
create_document(store, doc) == Append(store, doc)

\* schemas.Stop: travel_minutes_from_prev has ge=0.
StopValid(s) == s.travel_minutes_from_prev >= 0

\* schemas.Line: every stop is a valid Stop; schedules are any strings.
LineValid(l) == \A i \in DOMAIN l.stops : StopValid(l.stops[i])

\* ------------------------------------------------------------------ stop list
\* Mutant of ApplyPatch: lat and lng are overwritten even when the patch has
\* None for them.
ApplyPatchNulls(stop, patch) ==
    LET s1 == IF patch.name # None
              THEN [stop EXCEPT !.name = patch.name[1]] ELSE stop
        s3 == [s1 EXCEPT !.lat = patch.lat, !.lng = patch.lng]
    IN  IF patch.travel_minutes_from_prev # None
        THEN [s3 EXCEPT !.travel_minutes_from_prev =
                            patch.travel_minutes_from_prev[1]]
        ELSE s3

\* edit_stop, the loop over ["name", "lat", "lng", "travel_minutes_from_prev"]:
\* a field of the patch that is not None overwrites the stop's.
ApplyPatch(stop, patch) ==
    LET s1 == IF patch.name # None
              THEN [stop EXCEPT !.name = patch.name[1]] ELSE stop
        s2 == IF patch.lat # None THEN [s1 EXCEPT !.lat = patch.lat] ELSE s1
        s3 == IF patch.lng # None THEN [s2 EXCEPT !.lng = patch.lng] ELSE s2
    IN  IF patch.travel_minutes_from_prev # None
        THEN [s3 EXCEPT !.travel_minutes_from_prev =
                            patch.travel_minutes_from_prev[1]]
        ELSE s3

\* stops[patch.index] = stop  (Python indices start at 0)
PatchedStops(stops, patch) ==
    [stops EXCEPT ![patch.index + 1] = ApplyPatch(@, patch)]

\* Mutant of Pop: removes the element before the index.
PopBefore(stops, index) ==
    [j \in 1..(Len(stops) - 1) |-> IF j < index THEN stops[j] ELSE stops[j + 1]]

\* stops.pop(index)
Pop(stops, index) ==
    [j \in 1..(Len(stops) - 1) |-> IF j <= index THEN stops[j] ELSE stops[j + 1]]

\* if index < 0 or index >= len(stops)
IndexOutOfRange(index, stops) == index < 0 \/ index >= Len(stops)

\* edit_stop after find_one: the response, and the list to write back (None
\* when the handler raises before update_one).
EditInMemory(doc, patch) ==
    IF doc = None
    THEN [resp |-> LineNotFound, write |-> None]
    ELSE IF IndexOutOfRange(patch.index, doc[1].stops)
         THEN [resp |-> InvalidStopIndex, write |-> None]
         ELSE [resp |-> Ok, write |-> Some(PatchedStops(doc[1].stops, patch))]

\* delete_stop after find_one.
DeleteInMemory(doc, index) ==
    IF doc = None
    THEN [resp |-> LineNotFound, write |-> None]
    ELSE IF IndexOutOfRange(index, doc[1].stops)
         THEN [resp |-> InvalidStopIndex, write |-> None]
         ELSE [resp |-> Ok, write |-> Some(Pop(doc[1].stops, index))]

\* The update_one that ends edit_stop and delete_stop.
WriteBack(store, oid, outcome) ==
    IF outcome.write = None
    THEN store
    ELSE set_stops(store, oid, outcome.write[1])

\* ------------------------------------------------------------------ handlers
\* Each handler, run from request to response with no other request between
\* its store calls: [store |-> the store afterwards, resp |-> the response].

create_line(store, line) ==
    IF ~LineValid(line)
    THEN [store |-> store, resp |-> ValidationError]
    ELSE [store |-> create_document(store, line), resp |-> Ok]

add_stop(store, line_id, stop) ==
    IF ObjectIdRaises(line_id)
    THEN [store |-> store, resp |-> InvalidLineId]
    ELSE IF matched_count(store, line_id) = 0
         THEN [store |-> store, resp |-> LineNotFound]
         ELSE [store |-> push_stop(store, line_id.oid, stop), resp |-> Ok]

edit_stop(store, line_id, patch) ==
    IF ObjectIdRaises(line_id)
    THEN [store |-> store, resp |-> Unhandled("InvalidId")]
    ELSE LET outcome == EditInMemory(find_one(store, line_id), patch)
         IN  [store |-> WriteBack(store, line_id.oid, outcome),
              resp |-> outcome.resp]

delete_stop(store, line_id, index) ==
    IF ObjectIdRaises(line_id)
    THEN [store |-> store, resp |-> Unhandled("InvalidId")]
    ELSE LET outcome == DeleteInMemory(find_one(store, line_id), index)
         IN  [store |-> WriteBack(store, line_id.oid, outcome),
              resp |-> outcome.resp]

set_schedules(store, line_id, schedules) ==
    IF ObjectIdRaises(line_id)
    THEN [store |-> store, resp |-> InvalidLineId]
    ELSE [store |-> set_schedules_update(store, line_id.oid, schedules),
          resp |-> Ok]

\* ------------------------------------------------------------------ HH:MM strings
Digits == <<"0", "1", "2", "3", "4", "5", "6", "7", "8", "9">>

IsDigit(c) == c \in Range(Digits)

DigitValue(c) == (CHOOSE i \in DOMAIN Digits : Digits[i] = c) - 1

DigitChar(n) == Digits[n + 1]

\* str.split(":"): the pieces between the colons (k + 1 pieces for k colons).
RECURSIVE SplitColon(_)
SplitColon(str) ==
    IF \A i \in DOMAIN str : str[i] # ":"
    THEN <<str>>
    ELSE LET k == CHOOSE i \in DOMAIN str :
                      str[i] = ":" /\ \A j \in 1..(i - 1) : str[j] # ":"
         IN  <<SubSeq(str, 1, k - 1)>> \o SplitColon(SubSeq(str, k + 1, Len(str)))

\* int(piece) raises ValueError unless the piece is a decimal numeral (over the
\* characters of the model: digits, ":" and letters; no sign, no blank).
IntRaises(piece) == piece = <<>> \/ \E i \in DOMAIN piece : ~IsDigit(piece[i])

RECURSIVE IntOf(_)
IntOf(piece) ==
    IF piece = <<>>
    THEN 0
    ELSE 10 * IntOf(SubSeq(piece, 1, Len(piece) - 1))
         + DigitValue(piece[Len(piece)])

\* strftime("%H:%M")
StrfTime(dt) ==
    <<DigitChar(dt.hour \div 10), DigitChar(dt.hour % 10), ":",
      DigitChar(dt.minute \div 10), DigitChar(dt.minute % 10)>>

\* A datetime is [day, hour, minute] (seconds and microseconds are set to 0
\* before any use).  dt + timedelta(minutes = m):
PlusMinutes(dt, m) ==
    LET total == (dt.day * 24 + dt.hour) * 60 + dt.minute + m
    IN  [day |-> total \div (24 * 60),
         hour |-> (total % (24 * 60)) \div 60,
         minute |-> total % 60]

\* hh, mm = map(int, dep.split(":")) and base_time.replace(hour=hh, minute=mm):
\* ValueError unless there are exactly two numerals, hh in 0..23, mm in 0..59.
DepartureRaises(dep) ==
    LET pieces == SplitColon(dep)
    IN  \/ Len(pieces) # 2
        \/ IntRaises(pieces[1])
        \/ IntRaises(pieces[2])
        \/ IntOf(pieces[1]) > 23
        \/ IntOf(pieces[2]) > 59

Departure(base_time, dep) ==
    LET pieces == SplitColon(dep)
    IN  [day |-> base_time.day,
         hour |-> IntOf(pieces[1]),
         minute |-> IntOf(pieces[2])]

\* datetime.strptime(now, "%H:%M"): one or two digits for each of %H and %M.
StrptimeRaises(now) ==
    LET pieces == SplitColon(now)
    IN  \/ Len(pieces) # 2
        \/ \E k \in 1..2 : IntRaises(pieces[k]) \/ Len(pieces[k]) > 2
        \/ IntOf(pieces[1]) > 23
        \/ IntOf(pieces[2]) > 59

\* ------------------------------------------------------------------ ETA
\* Mutant of cumulative: the first stop's offset is counted too.
RECURSIVE cumulative_first(_, _)
cumulative_first(stops, i) ==
    IF i = 0
    THEN 0
    ELSE cumulative_first(stops, i - 1) + stops[i].travel_minutes_from_prev

\* The running total of compute_eta's loop when it reaches stop i (from 1):
\* 0 at the first stop, then += travel_minutes_from_prev.
RECURSIVE cumulative(_, _)
cumulative(stops, i) ==
    IF i = 1
    THEN 0
    ELSE cumulative(stops, i - 1) + stops[i].travel_minutes_from_prev

\* The inner loop: the arrivals of one stop over the schedules.
arrivals(base_time, schedules, cum) ==
    [j \in DOMAIN schedules |->
        StrfTime(PlusMinutes(Departure(base_time, schedules[j]), cum))]

\* The outer loop.
etas_all(base_time, stops, schedules) ==
    [i \in DOMAIN stops |->
        [stop |-> stops[i].name,
         arrivals |-> arrivals(base_time, schedules, cumulative(stops, i))]]

\* if 0 <= from_stop_index < len(etas): etas = etas[from_stop_index:]
Focus(etas, from_stop_index) ==
    IF 0 <= from_stop_index /\ from_stop_index < Len(etas)
    THEN SubSeq(etas, from_stop_index + 1, Len(etas))
    ELSE etas

\* compute_eta: [resp, etas].  today is the date datetime.now() or
\* datetime.today() gives; now is the optional query parameter.
compute_eta(store, line_id, from_stop_index, now, today) ==
    IF ObjectIdRaises(line_id)
    THEN [resp |-> Unhandled("InvalidId"), etas |-> <<>>]
    ELSE LET doc == find_one(store, line_id)
         IN  IF doc = None
             THEN [resp |-> LineNotFound, etas |-> <<>>]
             ELSE IF doc[1].schedules = <<>>
             THEN [resp |-> Ok, etas |-> <<>>]
             ELSE IF now # None /\ now[1] # <<>> /\ StrptimeRaises(now[1])
             THEN [resp |-> Unhandled("ValueError"), etas |-> <<>>]
             ELSE IF /\ doc[1].stops # <<>>
                     /\ \E j \in DOMAIN doc[1].schedules :
                            DepartureRaises(doc[1].schedules[j])
             THEN [resp |-> Unhandled("ValueError"), etas |-> <<>>]
             ELSE [resp |-> Ok,
                   etas |-> Focus(etas_all([day |-> today, hour |-> 0, minute |-> 0],
                                           doc[1].stops, doc[1].schedules),
                                  from_stop_index)]

\* ------------------------------------------------------------------ inputs
\* line_id strings: the ObjectIds the store hands out to the first MaxLines
\* lines (each names no line until that line is created), and a string that
\* is no ObjectId.
LineIds ==
    {[wellformed |-> TRUE, oid |-> n] : n \in 1..MaxLines}
    \cup {[wellformed |-> FALSE, oid |-> 0]}

T0730 == <<"0", "7", ":", "3", "0">>

T0800 == <<"0", "8", ":", "0", "0">>

T2358 == <<"2", "3", ":", "5", "8">>

\* Strings that are not HH:MM: hour out of range, not a numeral and no colon.
T2500 == <<"2", "5", ":", "0", "0">>

TLetters == <<"a", "b">>

ScheduleStrings == {T2358, T2500, TLetters}

SchedulePayloads == SeqsUpTo(ScheduleStrings, MaxScheds)

\* POST /api/lines bodies: an empty line, the three-stop line of the OCR
\* sample, a line whose first stop has a non-zero offset and whose trip
\* crosses midnight, and a line pydantic rejects (negative offset).
LinePayloads ==
    { Line("empty", <<>>, <<>>),
      Line("sample",
           <<Stop(None, "A", None, None, 0), Stop(Some("b"), "B", Some(45), Some(9), 5),
             Stop(None, "C", None, None, 4)>>,
           <<T0730, T0800>>),
      Line("night", <<Stop(None, "A", None, None, 7), Stop(None, "B", None, None, 40)>>,
           <<T2358>>),
      Line("rejected", <<Stop(None, "A", None, None, -1)>>, <<>>) }

StopInputs ==
    { StopInput("D", Some(46), Some(10), 6), StopInput("E", None, None, -1) }

IndexInputs == -1..MaxStops

\* PATCH bodies: every subset of the four fields at index 1, and a patch of
\* the name at every index.  StopPatch puts no bound on
\* travel_minutes_from_prev.
Patches ==
    { StopPatch(1, n, la, lo, tm) :
        n \in {None, Some("X")}, la \in {None, Some(47)},
        lo \in {None, Some(11)}, tm \in {None, Some(-2)} }
    \cup { StopPatch(i, Some("X"), None, None, None) : i \in IndexInputs }

NowInputs == {None, Some(T0800), Some(TLetters)}

\* The calendar day datetime.now() falls on; "%H:%M" shows no date, so one
\* day stands for all.
Days == {1}

\* ------------------------------------------------------------------ state
\* The two callers whose requests interleave.
Callers == {"c1", "c2"}

Idle == [pc |-> "idle"]

NoRequest == [op |-> "none", n |-> 0]

Init ==
    /\ db = <<>>
    /\ last = NoRequest
    /\ proc = [p \in Callers |-> Idle]

\* What the last request was and how it ended: pre is the store before it.
Record(op, line_id, arg, out, etas) ==
    [op |-> op, line_id |-> line_id, arg |-> arg, resp |-> out.resp,
     etas |-> etas, pre |-> db, n |-> last.n + 1]

\* The model stops after MaxRequests requests.
MayRequest == last.n < MaxRequests

\* ------------------------------------------------------------------ requests
CreateLine ==
    \E line \in LinePayloads :
        /\ MayRequest
        /\ Len(db) < MaxLines
        /\ LET out == create_line(db, line)
           IN  /\ db' = out.store
               /\ last' = Record("create_line", None, line, out, <<>>)
        /\ UNCHANGED proc

\* The bound on the stop list: no Append to a line that has MaxStops stops.
Full(line_id) ==
    line_id.oid \in DOMAIN db /\ Len(db[line_id.oid].stops) >= MaxStops

AddStop ==
    \E line_id \in LineIds, stop \in StopInputs :
        /\ MayRequest
        /\ ~Full(line_id)
        /\ LET out == add_stop(db, line_id, stop)
           IN  /\ db' = out.store
               /\ last' = Record("add_stop", line_id, stop, out, <<>>)
        /\ UNCHANGED proc

EditStop ==
    \E line_id \in LineIds, patch \in Patches :
        /\ MayRequest
        /\ LET out == edit_stop(db, line_id, patch)
           IN  /\ db' = out.store
               /\ last' = Record("edit_stop", line_id, patch, out, <<>>)
        /\ UNCHANGED proc

DeleteStop ==
    \E line_id \in LineIds, index \in IndexInputs :
        /\ MayRequest
        /\ LET out == delete_stop(db, line_id, index)
           IN  /\ db' = out.store
               /\ last' = Record("delete_stop", line_id, index, out, <<>>)
        /\ UNCHANGED proc

SetSchedules ==
    \E line_id \in LineIds, schedules \in SchedulePayloads :
        /\ MayRequest
        /\ LET out == set_schedules(db, line_id, schedules)
           IN  /\ db' = out.store
               /\ last' = Record("set_schedules", line_id, schedules, out, <<>>)
        /\ UNCHANGED proc

ComputeEta ==
    \E line_id \in LineIds, from_stop_index \in IndexInputs, now \in NowInputs,
       today \in Days :
        /\ MayRequest
        /\ LET out == compute_eta(db, line_id, from_stop_index, now, today)
           IN  /\ db' = db
               /\ last' = Record("compute_eta", line_id,
                                 [from_stop_index |-> from_stop_index, now |-> now],
                                 out, out.etas)
        /\ UNCHANGED proc

Next ==
    \/ CreateLine
    \/ AddStop
    \/ EditStop
    \/ DeleteStop
    \/ SetSchedules
    \/ ComputeEta

Spec == Init /\ [][Next]_vars

\* ------------------------------------------------------------------ concurrent callers
\* edit_stop and delete_stop make two store calls, find_one and update_one,
\* and the store serves other requests between them.  A caller is at "idle",
\* at "write" (find_one answered, the list is changed in memory, update_one
\* not yet sent) or at "done" (the response is out).  before is the stop list
\* that update_one replaced.

ConcPatches == { StopPatch(i, Some("X"), None, None, None) : i \in 0..1 }

ConcIndexes == 0..1

Pending(op, line_id, arg, doc) ==
    [pc |-> "write", op |-> op, line_id |-> line_id, arg |-> arg, doc |-> doc]

Done(op, line_id, arg, doc, resp, before) ==
    [pc |-> "done", op |-> op, line_id |-> line_id, arg |-> arg, doc |-> doc,
     resp |-> resp, before |-> before]

\* The in-memory outcome of a caller that is past find_one.
OutcomeOf(c) ==
    IF c.op = "edit_stop"
    THEN EditInMemory(c.doc, c.arg)
    ELSE DeleteInMemory(c.doc, c.arg)

\* From the request to the answer of find_one: the handler raises (and the
\* call is over) or goes on to update_one.
Begin(p, op, line_id, arg) ==
    /\ proc[p].pc = "idle"
    /\ IF ObjectIdRaises(line_id)
       THEN proc' = [proc EXCEPT ![p] =
                Done(op, line_id, arg, None, Unhandled("InvalidId"), None)]
       ELSE LET c == Pending(op, line_id, arg, find_one(db, line_id))
            IN  IF OutcomeOf(c).write = None
                THEN proc' = [proc EXCEPT ![p] =
                         Done(op, line_id, arg, c.doc, OutcomeOf(c).resp, None)]
                ELSE proc' = [proc EXCEPT ![p] = c]
    /\ UNCHANGED <<db, last>>

BeginEdit(p) ==
    \E line_id \in LineIds, patch \in ConcPatches :
        Begin(p, "edit_stop", line_id, patch)

BeginDelete(p) ==
    \E line_id \in LineIds, index \in ConcIndexes :
        Begin(p, "delete_stop", line_id, index)

\* Mutant of Write: the change is applied to the list the store holds at the
\* time of the write (an atomic update), not to the list read earlier.
WriteOnCurrent(p) ==
    /\ proc[p].pc = "write"
    /\ LET c == proc[p]
           now == [c EXCEPT !.doc = find_one(db, c.line_id)]
       IN  /\ db' = WriteBack(db, c.line_id.oid, OutcomeOf(now))
           /\ proc' = [proc EXCEPT ![p] =
                  Done(c.op, c.line_id, c.arg, c.doc, Ok,
                       Some(db[c.line_id.oid].stops))]
    /\ UNCHANGED last

\* update_one({"_id": doc["_id"]}, {"$set": {"stops": stops}}); return ok.
Write(p) ==
    /\ proc[p].pc = "write"
    /\ LET c == proc[p]
       IN  /\ db' = WriteBack(db, c.line_id.oid, OutcomeOf(c))
           /\ proc' = [proc EXCEPT ![p] =
                  Done(c.op, c.line_id, c.arg, c.doc, Ok,
                       Some(db[c.line_id.oid].stops))]
    /\ UNCHANGED last

ConcNext ==
    \/ CreateLine
    \/ AddStop
    \/ \E p \in Callers : BeginEdit(p)
    \/ \E p \in Callers : BeginDelete(p)
    \/ \E p \in Callers : Write(p)

SpecConc == Init /\ [][ConcNext]_vars

\* ------------------------------------------------------------------ properties
\* The line id of the last request names a line of the store.
Resolves(line_id, store) == line_id.wellformed /\ line_id.oid \in DOMAIN store

\* The store is as before the last request, but for the line the request names.
OtherLinesUnchanged ==
    /\ DOMAIN db = DOMAIN last.pre
    /\ \A o \in DOMAIN db : o # last.line_id.oid => db[o] = last.pre[o]

\* Of the line the last request names: everything but its stops is as before.
OnlyStopsChanged ==
    /\ OtherLinesUnchanged
    /\ db[last.line_id.oid].name = last.pre[last.line_id.oid].name
    /\ db[last.line_id.oid].schedules = last.pre[last.line_id.oid].schedules

StopsBefore == last.pre[last.line_id.oid].stops

StopsAfter == db[last.line_id.oid].stops

\* C1: on an existing line and a valid index i, delete_stop succeeds; the list
\* is one shorter, the stops before i keep their index, the stops after i move
\* down by one, and the schedules and every other line are unchanged.
C1_DeleteShiftsLeft ==
    ( /\ last.op = "delete_stop"
      /\ Resolves(last.line_id, last.pre)
      /\ 0 <= last.arg
      /\ last.arg < Len(StopsBefore) )
    => /\ last.resp = Ok
       /\ Len(StopsAfter) = Len(StopsBefore) - 1
       /\ \A j \in 0..(last.arg - 1) : StopsAfter[j + 1] = StopsBefore[j + 1]
       /\ \A j \in (last.arg + 1)..(Len(StopsBefore) - 1) :
              StopsAfter[j] = StopsBefore[j + 1]
       /\ OnlyStopsChanged

\* C1's case: the middle stop of a three-stop line deleted, a second line in
\* the store.
C1_Witness ==
    /\ last.op = "delete_stop"
    /\ last.resp = Ok
    /\ last.arg = 1
    /\ Len(StopsBefore) = 3
    /\ Len(db) = 2

PatchFields == {"name", "lat", "lng", "travel_minutes_from_prev"}

\* The stored form of a supplied patch field: lat and lng are Optional in the
\* stop too, name and travel_minutes_from_prev are not.
Supplied(patch, f) == patch[f] # None

SuppliedValue(patch, f) ==
    IF f \in {"lat", "lng"} THEN patch[f] ELSE patch[f][1]

\* C2: on an existing line and a valid index i, edit_stop succeeds and changes
\* exactly the supplied (non-null) fields of stop i to the supplied values;
\* the other fields of stop i, the other stops, the length and order of the
\* list, the schedules and the other lines are unchanged.
C2_PatchChangesOnlySupplied ==
    ( /\ last.op = "edit_stop"
      /\ Resolves(last.line_id, last.pre)
      /\ 0 <= last.arg.index
      /\ last.arg.index < Len(StopsBefore) )
    => /\ last.resp = Ok
       /\ Len(StopsAfter) = Len(StopsBefore)
       /\ \A j \in DOMAIN StopsBefore :
              j # last.arg.index + 1 => StopsAfter[j] = StopsBefore[j]
       /\ LET old == StopsBefore[last.arg.index + 1]
              new == StopsAfter[last.arg.index + 1]
          IN  /\ DOMAIN new = DOMAIN old
              /\ \A f \in DOMAIN old :
                     new[f] = IF f \in PatchFields /\ Supplied(last.arg, f)
                              THEN SuppliedValue(last.arg, f)
                              ELSE old[f]
       /\ OnlyStopsChanged

\* C2's case: a patch that supplies some fields and not others, on the middle
\* stop of a three-stop line whose unsupplied fields hold values.
C2_Witness ==
    /\ last.op = "edit_stop"
    /\ last.resp = Ok
    /\ last.arg.index = 1
    /\ Len(StopsBefore) = 3
    /\ Supplied(last.arg, "name")
    /\ Supplied(last.arg, "travel_minutes_from_prev")
    /\ ~Supplied(last.arg, "lat")
    /\ ~Supplied(last.arg, "lng")
    /\ StopsBefore[2].lat # None
    /\ StopsAfter[2].lat = StopsBefore[2].lat
    /\ StopsAfter[2].name # StopsBefore[2].name

\* A well-formed HH:MM string: two digits, a colon, two digits, 00:00..23:59.
WellFormedHHMM(t) ==
    /\ Len(t) = 5
    /\ t[3] = ":"
    /\ \A i \in {1, 2, 4, 5} : IsDigit(t[i])
    /\ 10 * DigitValue(t[1]) + DigitValue(t[2]) <= 23
    /\ 10 * DigitValue(t[4]) + DigitValue(t[5]) <= 59

MinuteOfDay(t) ==
    (10 * DigitValue(t[1]) + DigitValue(t[2])) * 60
    + 10 * DigitValue(t[4]) + DigitValue(t[5])

HHMM(m) ==
    <<DigitChar(m \div 600), DigitChar((m \div 60) % 10), ":",
      DigitChar((m % 60) \div 10), DigitChar(m % 10)>>

\* The sum of travel_minutes_from_prev over the stops lo..hi (from 1).
RECURSIVE TravelSum(_, _, _)
TravelSum(stops, lo, hi) ==
    IF lo > hi
    THEN 0
    ELSE stops[lo].travel_minutes_from_prev + TravelSum(stops, lo + 1, hi)

\* The projection the specification describes: for stop k (from 1) and
\* schedule j, the schedule's minute of day plus the offsets of the stops
\* after the first up to k, modulo 24 hours.
ExpectedProjection(stops, schedules) ==
    [k \in DOMAIN stops |->
        [stop |-> stops[k].name,
         arrivals |-> [j \in DOMAIN schedules |->
             HHMM((MinuteOfDay(schedules[j]) + TravelSum(stops, 2, k))
                  % (24 * 60))]]]

\* The last request is compute_eta on an existing line with schedules, and
\* its reference time is absent or an HH:MM time.
EtaOnLineWithSchedules ==
    /\ last.op = "compute_eta"
    /\ Resolves(last.line_id, db)
    /\ db[last.line_id.oid].schedules # <<>>
    /\ last.arg.now \in {None, Some(T0800)}

AllSchedulesWellFormed ==
    \A j \in DOMAIN db[last.line_id.oid].schedules :
        WellFormedHHMM(db[last.line_id.oid].schedules[j])

\* On a line whose schedules are well-formed HH:MM strings (and there is one
\* at least), compute_eta from stop 0 returns one entry per stop, in order,
\* with the arrivals of ExpectedProjection.
EtaIsExpectedProjection ==
    ( /\ EtaOnLineWithSchedules
      /\ AllSchedulesWellFormed
      /\ last.arg.from_stop_index = 0 )
    => /\ last.resp = Ok
       /\ Len(last.etas) = Len(db[last.line_id.oid].stops)
       /\ last.etas = ExpectedProjection(db[last.line_id.oid].stops,
                                         db[last.line_id.oid].schedules)

\* C3's case: a first stop with a non-zero offset, a later stop with an
\* offset, and an arrival that crosses midnight.
C3_Witness ==
    /\ EtaOnLineWithSchedules
    /\ AllSchedulesWellFormed
    /\ last.arg.from_stop_index = 0
    /\ last.resp = Ok
    /\ Len(last.etas) >= 2
    /\ db[last.line_id.oid].stops[1].travel_minutes_from_prev > 0
    /\ db[last.line_id.oid].stops[2].travel_minutes_from_prev > 0
    /\ db[last.line_id.oid].schedules[1] = T2358
    /\ last.etas[1].arrivals[1] = T2358
    /\ last.etas[2].arrivals[1][1] = "0"
    /\ last.etas[2].arrivals[1][2] = "0"

\* The example: stops A(0), B(5), C(4) and schedules 07:30, 08:00.
EtaOfSample ==
    ( /\ last.op = "compute_eta"
      /\ Resolves(last.line_id, db)
      /\ db[last.line_id.oid].name = "sample"
      /\ db[last.line_id.oid] \in LinePayloads
      /\ last.arg.from_stop_index = 0
      /\ last.arg.now \in {None, Some(T0800)} )
    => last.etas =
         << [stop |-> "A", arrivals |-> <<T0730, T0800>>],
            [stop |-> "B", arrivals |->
                <<(<<"0", "7", ":", "3", "5">>), (<<"0", "8", ":", "0", "5">>)>>],
            [stop |-> "C", arrivals |->
                <<(<<"0", "7", ":", "3", "9">>), (<<"0", "8", ":", "0", "9">>)>>] >>

\* C3: on a line with well-formed HH:MM schedules compute_eta returns one
\* entry per stop, in stop order, and the arrival j of stop k is schedule j
\* plus the travel_minutes_from_prev of stops 1..k (stop 0 counts for 0),
\* modulo 24 hours, as HH:MM; A(0), B(5), C(4) with 07:30 and 08:00 give
\* A 07:30 08:00, B 07:35 08:05, C 07:39 08:09.
C3_EtaIsCumulativeSum == EtaIsExpectedProjection /\ EtaOfSample

\* C4 as claimed: on every line with schedules, compute_eta with
\* from_stop_index in [0, len(stops)) returns the full projection from that
\* index on, and with any other from_stop_index returns the full projection,
\* without an error.
C4_FocusNeverFails ==
    EtaOnLineWithSchedules
    => /\ last.resp = Ok
       /\ LET stops == db[last.line_id.oid].stops
              full == compute_eta(db, last.line_id, 0, None, 1).etas
              i == last.arg.from_stop_index
          IN  IF 0 <= i /\ i < Len(stops)
              THEN /\ Len(last.etas) = Len(stops) - i
                   /\ \A k \in 1..Len(last.etas) : last.etas[k] = full[k + i]
              ELSE last.etas = full

\* C5 as claimed, for the line ids that are ObjectIds: set_schedules on one
\* that names no line fails with NotFound and does not report success; on an
\* existing line it replaces the schedules with the given list and changes
\* nothing else.
C5_SetSchedulesNotFound ==
    (last.op = "set_schedules" /\ last.line_id.wellformed)
    => IF Resolves(last.line_id, last.pre)
       THEN /\ last.resp = Ok
            /\ db = [last.pre EXCEPT ![last.line_id.oid].schedules = last.arg]
       ELSE /\ last.resp = LineNotFound
            /\ db = last.pre

\* C6 as claimed: edit_stop and delete_stop fail with InvalidIndex on an
\* index outside the list of an existing line and with NotFound on a line id
\* that names no line, and the store is then unchanged.
C6_EditDeleteFailures ==
    last.op \in {"edit_stop", "delete_stop"}
    => LET index == IF last.op = "edit_stop" THEN last.arg.index ELSE last.arg
       IN  /\ ~Resolves(last.line_id, last.pre)
              => last.resp = LineNotFound /\ db = last.pre
           /\ ( /\ Resolves(last.line_id, last.pre)
                /\ (index < 0 \/ index >= Len(StopsBefore)) )
              => last.resp = InvalidStopIndex /\ db = last.pre

\* C7 as claimed: add_stop on a line id that names no line fails with
\* NotFound and leaves the store unchanged; on an existing line it appends.
C7_AppendOrNotFound ==
    last.op = "add_stop"
    => IF Resolves(last.line_id, last.pre)
       THEN /\ last.resp = Ok
            /\ StopsAfter = Append(StopsBefore, last.arg)
            /\ OnlyStopsChanged
       ELSE /\ last.resp = LineNotFound
            /\ db = last.pre

\* C7 amended: add_stop on an existing line appends the stop (the stops
\* before it keep their indices, the length grows by one, nothing else
\* changes); on an ObjectId that names no line it fails with NotFound (404),
\* on a string that is no ObjectId with "Invalid line id" (400), and the store
\* is unchanged in both.
C7_AppendOrNotFoundOrInvalidId ==
    last.op = "add_stop"
    => IF Resolves(last.line_id, last.pre)
       THEN /\ last.resp = Ok
            /\ Len(StopsAfter) = Len(StopsBefore) + 1
            /\ StopsAfter[Len(StopsAfter)] = last.arg
            /\ \A j \in DOMAIN StopsBefore : StopsAfter[j] = StopsBefore[j]
            /\ OnlyStopsChanged
       ELSE /\ last.resp = IF last.line_id.wellformed
                           THEN LineNotFound ELSE InvalidLineId
            /\ db = last.pre

\* C7's case: a stop appended to a line that has stops, a second line in the
\* store.
C7_Witness ==
    /\ last.op = "add_stop"
    /\ last.resp = Ok
    /\ Len(StopsBefore) = 2
    /\ StopsAfter[3] = last.arg
    /\ StopsAfter[1] # last.arg
    /\ Len(db) = 2

\* C8 as claimed: every stored stop has a non-negative
\* travel_minutes_from_prev, and a request that supplies a negative one is
\* rejected with a validation error.
C8_TravelMinutesNonNegative ==
    \A o \in DOMAIN db : \A j \in DOMAIN db[o].stops :
        db[o].stops[j].travel_minutes_from_prev >= 0

\* C10 as claimed: compute_eta without a reference time, on an existing line,
\* always returns a projection.
C10_EtaNeverFails ==
    ( /\ last.op = "compute_eta"
      /\ Resolves(last.line_id, db)
      /\ last.arg.now = None )
    => last.resp = Ok

\* C9: edit_stop and delete_stop read the list, change it in memory and write
\* it back whole, with nothing that detects a change in between: the write of
\* a caller stores the list it read with its own change applied, whatever the
\* store holds by then, and the caller returns success.  So a state is
\* reachable (C9_Witness) in which two calls returned success and the list
\* reflects one of them only, an Append completed in between being erased.
C9_WriteBackOfStaleList ==
    [][ \A p \in Callers :
          (proc[p].pc = "write" /\ proc'[p].pc = "done")
          => /\ proc'[p].resp = Ok
             /\ db'[proc[p].line_id.oid].stops =
                    IF proc[p].op = "edit_stop"
                    THEN PatchedStops(proc[p].doc[1].stops, proc[p].arg)
                    ELSE Pop(proc[p].doc[1].stops, proc[p].arg)
             /\ \A o \in DOMAIN db : o # proc[p].line_id.oid => db'[o] = db[o]
      ]_vars

\* C9's case: callers p (edit_stop, name "X") and q (delete_stop, another
\* index) read the same list of one line; add_stop then appends to it; p
\* writes, replacing the list with the appended stop; q writes, replacing p's
\* list.  All three returned success, and the stored list has neither the
\* appended stop nor the name "X".
C9_Witness ==
    \E p, q \in Callers :
        /\ p # q
        /\ proc[p].pc = "done" /\ proc[q].pc = "done"
        /\ proc[p].resp = Ok /\ proc[q].resp = Ok
        /\ proc[p].op = "edit_stop" /\ proc[q].op = "delete_stop"
        /\ proc[p].line_id = proc[q].line_id
        /\ proc[p].doc = proc[q].doc
        /\ proc[p].arg.index # proc[q].arg
        /\ last.op = "add_stop" /\ last.resp = Ok
        /\ last.line_id = proc[p].line_id
        /\ last.pre[last.line_id.oid].stops = proc[p].doc[1].stops
        /\ proc[p].before = Some(Append(proc[p].doc[1].stops, last.arg))
        /\ proc[q].before = Some(PatchedStops(proc[p].doc[1].stops, proc[p].arg))
        /\ db[last.line_id.oid].stops = Pop(proc[q].doc[1].stops, proc[q].arg)
        /\ \A j \in DOMAIN db[last.line_id.oid].stops :
               /\ db[last.line_id.oid].stops[j] # last.arg
               /\ db[last.line_id.oid].stops[j].name # "X"

====
